---- MODULE Spec2Model ----
(***************************************************************************)
(* A model of src/prediction.py: the tweet classification pipeline.        *)
(*                                                                         *)
(* Strings are sequences of one-character strings.  A CSV file is a        *)
(* sequence of rows; a cell holds a string (the empty cell is <<>>).       *)
(* The tokenizer and pad_sequences are the Keras preprocessing functions   *)
(* the source calls, modelled with the arguments the source passes and     *)
(* the library's defaults for the ones it leaves out.                      *)
(*                                                                         *)
(* The neural network itself (embeddings, attention, GRUs, Adam) is        *)
(* floating-point tensor code; it is abstracted to a parameter value from  *)
(* a small set, a forward pass that is a fixed function of the parameters  *)
(* and ONE record's three padded sequences (no layer couples the rows of   *)
(* a batch), and an optimizer step that may produce any parameter value.   *)
(***************************************************************************)
EXTENDS Integers, Sequences, FiniteSets, TLC

VARIABLES
    train_csv,        \* the training file: rows [id, keyword, location, text, target]
    test_csv,         \* the test file: rows [id, keyword, location, text]
    validation_csv,   \* the validation file written by _preprocess_data
    output_csv,       \* the submission file written by generate_submission
    model_file,       \* the model file written by train
    tokenizer,        \* self.tokenizer: [oov_token, word_counts, word_index]
    vocab_size,       \* self.vocab_size
    params,           \* the model's trainable parameters (abstract value)
    train_dataset,    \* self.train_dataset: the padded arrays and the take count
    evaluator,        \* self.evaluator: the ModelEvaluator's maxlen fields
    pc,               \* where the script is
    epochs,           \* train(epochs): the argument of the running call
    epoch,            \* the epoch fit() is in
    remaining,        \* rows the shuffled iterator has not produced in this epoch
    taken,            \* batches the iterator has produced in this epoch
    metrics,          \* what evaluate() returned last
    fed,              \* history: rows that were in a batch given to train_step
    fit_calls,        \* history: number of fit_on_texts calls
    predicted,        \* history: what each evaluator method last predicted from
    u_pc,             \* function harness: stage
    u_site,           \* function harness: which preprocessing site is exercised
    u_field,          \* function harness: the field
    u_text,           \* function harness: the input string
    u_seq,            \* function harness: its index sequence
    u_padded          \* function harness: its padded sequence

vars == <<train_csv, test_csv, validation_csv, output_csv, model_file, tokenizer,
          vocab_size, params, train_dataset, evaluator, pc, epochs, epoch,
          remaining, taken, metrics, fed, fit_calls, predicted,
          u_pc, u_site, u_field, u_text, u_seq, u_padded>>

sysvars == <<validation_csv, output_csv, model_file, tokenizer,
             vocab_size, params, train_dataset, evaluator, pc, epochs, epoch,
             remaining, taken, metrics, fed, fit_calls, predicted>>

uvars == <<u_pc, u_site, u_field, u_text, u_seq, u_padded>>

\* no oov token: the empty word, which no text tokenizes to
NoToken == <<>>

\* a file that was not written; a written file has exists = TRUE
NoFile == [exists |-> FALSE, rows |-> <<>>]

File(rows) == [exists |-> TRUE, rows |-> rows]

---------------------------------------------------------------------------
(* Program constants *)

text_maxlen == 100

keyword_maxlen == 3

location_maxlen == 20

BatchSize == 32

\* the 0.5 of (predictions > 0.5), in tenths: a probability is one of 0..10 tenths
Threshold == 5

(* Bounds of the model *)

MaxRows == 10

MaxTestRows == 2

MaxEpochs == 2

MaxParam == 1

MaxChars == 3

MaxVocabRows == 2

---------------------------------------------------------------------------
(* Sequences *)

Range(s) == {s[i] : i \in 1..Len(s)}

RECURSIVE SumRange(_, _, _)
\* s[lo] + ... + s[hi], by halves
SumRange(s, lo, hi) ==
    IF lo > hi THEN 0
    ELSE IF lo = hi THEN s[lo]
    ELSE LET mid == (lo + hi) \div 2
         IN SumRange(s, lo, mid) + SumRange(s, mid + 1, hi)

SumSeq(s) == SumRange(s, 1, Len(s))

RECURSIVE ConcatRange(_, _, _)
\* ss[lo] \o ... \o ss[hi], by halves
ConcatRange(ss, lo, hi) ==
    IF lo > hi THEN <<>>
    ELSE IF lo = hi THEN ss[lo]
    ELSE LET mid == (lo + hi) \div 2
         IN ConcatRange(ss, lo, mid) \o ConcatRange(ss, mid + 1, hi)

Concat(ss) == ConcatRange(ss, 1, Len(ss))

\* the elements of the set of integers S in rising order
Sorted(S) ==
    LET below == [i \in S |-> Cardinality({j \in S : j < i})]
    IN [k \in 1..Cardinality(S) |-> CHOOSE i \in S : below[i] = k - 1]

---------------------------------------------------------------------------
(* The Keras Tokenizer, as constructed at line 141: Tokenizer(oov_token='<OOV>'),
   so lower=True, split=' ', num_words=None and the default filters. *)

\* '<OOV>' as a word: no tokenized word equals it, '<' and '>' being filtered
OovToken == <<"<OOV>">>

\* the default filters !"#$%&()*+,-./:;<=>?@[\]^_`{|}~\t\n that the model's alphabet has
Filters == {"!"}

Lower(c) == IF c = "A" THEN "a" ELSE IF c = "B" THEN "b" ELSE c

RECURSIVE SplitRange(_, _, _)
\* the words of s[lo..hi]: none or one when it has no blank, else the words
\* before and after the blank nearest its middle
SplitRange(s, lo, hi) ==
    LET blanks == {i \in lo..hi : s[i] = " "}
        mid    == (lo + hi) \div 2
        after  == {i \in blanks : i >= mid}
        pick   == IF after # {}
                  THEN CHOOSE i \in after : \A j \in after : i <= j
                  ELSE CHOOSE i \in blanks : \A j \in blanks : i >= j
    IN IF lo > hi THEN <<>>
       ELSE IF blanks = {} THEN <<SubSeq(s, lo, hi)>>
       ELSE SplitRange(s, lo, pick - 1) \o SplitRange(s, pick + 1, hi)

\* str.split(' ') without the empty pieces: the maximal runs of characters
\* other than the blank, in order
Split(s) == SplitRange(s, 1, Len(s))

\* text_to_word_sequence: lower-case, filter characters become the split
\* character, split, empty pieces dropped
TextToWordSequence(text) ==
    Split([i \in 1..Len(text) |->
              IF Lower(text[i]) \in Filters THEN " " ELSE Lower(text[i])])

\* Tokenizer() without the oov_token argument
NewTokenizer_NoOov == [oov_token |-> NoToken, word_counts |-> <<>>, word_index |-> <<>>]

NewTokenizer == [oov_token |-> OovToken, word_counts |-> <<>>, word_index |-> <<>>]

\* for every w of ws in turn, word_counts[w] += 1 (an OrderedDict: a new word
\* goes to the end): the old entries with their counts raised, then the new
\* words in the order of their first occurrence
CountWords(wc, ws) ==
    LET occ(w) == Cardinality({i \in 1..Len(ws) : ws[i] = w})
        old    == {wc[i].w : i \in 1..Len(wc)}
        firsts == Sorted({i \in 1..Len(ws) :
                            /\ ws[i] \notin old
                            /\ \A j \in 1..(i - 1) : ws[j] # ws[i]})
    IN [i \in 1..Len(wc) |-> [w |-> wc[i].w, c |-> wc[i].c + occ(wc[i].w)]]
       \o [k \in 1..Len(firsts) |-> [w |-> ws[firsts[k]], c |-> occ(ws[firsts[k]])]]

\* wcounts.sort(key=count, reverse=True): a stable sort, ties keep insertion order
SortedVoc(wc) ==
    LET rank(i) == 1 + Cardinality({j \in 1..Len(wc) :
                        wc[j].c > wc[i].c \/ (wc[j].c = wc[i].c /\ j < i)})
    IN [k \in 1..Len(wc) |-> wc[CHOOSE i \in 1..Len(wc) : rank(i) = k].w]

\* fit_on_texts: count every word of every text, then rebuild word_index as
\* [oov_token] + the words by falling count, numbered from 1
FitOnTexts(tok, texts) ==
    LET wc  == CountWords(tok.word_counts,
                          Concat([i \in 1..Len(texts) |-> TextToWordSequence(texts[i])]))
        voc == (IF tok.oov_token = NoToken THEN <<>> ELSE <<tok.oov_token>>) \o SortedVoc(wc)
    IN [tok EXCEPT !.word_counts = wc,
                   !.word_index  = [w \in Range(voc) |->
                                       CHOOSE k \in 1..Len(voc) : voc[k] = w]]

\* the loop of texts_to_sequences over one text's words: a known word gives its
\* index, an unknown one the oov index when there is an oov token, else nothing
WordsToIndices(tok, ws) ==
    LET Known(w) == w \in DOMAIN tok.word_index
        kept     == SelectSeq(ws, Known)
    IN IF tok.oov_token # NoToken
       THEN [k \in 1..Len(ws) |->
                IF Known(ws[k]) THEN tok.word_index[ws[k]]
                ELSE tok.word_index[tok.oov_token]]
       ELSE [k \in 1..Len(kept) |-> tok.word_index[kept[k]]]

TextsToSequences(tok, texts) ==
    [i \in 1..Len(texts) |-> WordsToIndices(tok, TextToWordSequence(texts[i]))]

---------------------------------------------------------------------------
(* pad_sequences(sequences, maxlen, padding, truncating), value 0 *)

PadOne(s, maxlen, padding, truncating) ==
    LET n     == Len(s)
        trunc == IF n <= maxlen THEN s
                 ELSE IF truncating = "pre" THEN SubSeq(s, n - maxlen + 1, n)
                 ELSE SubSeq(s, 1, maxlen)
        t     == Len(trunc)
    IN [k \in 1..maxlen |->
           IF padding = "post" THEN (IF k <= t THEN trunc[k] ELSE 0)
           ELSE (IF k <= maxlen - t THEN 0 ELSE trunc[k - (maxlen - t)])]

PadSequences(seqs, maxlen, padding, truncating) ==
    [i \in 1..Len(seqs) |-> PadOne(seqs[i], maxlen, padding, truncating)]

---------------------------------------------------------------------------
(* CSV files and data frames *)

\* the missing value of a text cell
NaN == <<"NaN">>

Columns == {"keyword", "location", "text"}

\* pd.read_csv: an empty cell is read as NaN
ReadCsv(file) ==
    [i \in 1..Len(file) |->
        [c \in DOMAIN file[i] |->
            IF c \in Columns /\ file[i][c] = <<>> THEN NaN ELSE file[i][c]]]

\* df.fillna('', inplace=True)
FillNa(df) ==
    [i \in 1..Len(df) |->
        [c \in DOMAIN df[i] |->
            IF c \in Columns /\ df[i][c] = NaN THEN <<>> ELSE df[i][c]]]

\* df[col].tolist()
Column(df, col) == [i \in 1..Len(df) |-> df[i][col]]

\* df.to_csv(path, index=False): a missing value or '' is written as an empty cell
ToCsv(df) ==
    [i \in 1..Len(df) |->
        [c \in DOMAIN df[i] |->
            IF c \in Columns /\ df[i][c] = NaN THEN <<>> ELSE df[i][c]]]

---------------------------------------------------------------------------
(* The model: parameters, forward pass, thresholding *)

ParamSpace == 0..MaxParam

\* TextClassificationModel.call on one record: a probability (in tenths) that
\* depends on the parameters and on that record's three padded sequences
Forward(p, keyword_seq, location_seq, text_seq) ==
    ((p + 1) * (SumSeq(keyword_seq) + 2 * SumSeq(location_seq) + SumSeq(text_seq))
        + 3 * p) % (2 * Threshold + 1)

\* model.predict(test_data): row i of the result comes from row i of each array;
\* an empty input raises
Predict(p, data) ==
    [i \in 1..Len(data.text) |->
        Forward(p, data.keyword[i], data.location[i], data.text[i])]

\* (predictions > 0.5).astype(int).flatten() in ModelEvaluator.evaluate
Evaluate_Labels(predictions) ==
    [i \in 1..Len(predictions) |-> IF predictions[i] > Threshold THEN 1 ELSE 0]

\* (predictions >= 0.5)
Submission_Labels_Geq(predictions) ==
    [i \in 1..Len(predictions) |-> IF predictions[i] >= Threshold THEN 1 ELSE 0]

\* (predictions > 0.5).astype(int).flatten() in ModelEvaluator.generate_submission
Submission_Labels(predictions) ==
    [i \in 1..Len(predictions) |-> IF predictions[i] > Threshold THEN 1 ELSE 0]

---------------------------------------------------------------------------
(* The three preprocessing sites *)

Sites == {"_preprocess_data", "preprocess_test_data", "generate_submission"}

SystemMaxlen == [text |-> text_maxlen, keyword |-> keyword_maxlen,
                 location |-> location_maxlen]

\* ModelEvaluator.__init__ as called at line 146: the system's own lengths
NewEvaluator == [text_maxlen |-> text_maxlen, keyword_maxlen |-> keyword_maxlen,
                 location_maxlen |-> location_maxlen]

EvaluatorMaxlen(ev) == [text |-> ev.text_maxlen, keyword |-> ev.keyword_maxlen,
                        location |-> ev.location_maxlen]

\* an evaluator that fits a tokenizer of its own on the file it is given
EvaluatorTokenizer_Refit(tok, df) ==
    FitOnTexts(NewTokenizer,
               Column(df, "text") \o Column(df, "keyword") \o Column(df, "location"))

\* self.tokenizer of the ModelEvaluator: the object it was given at line 146,
\* which is the system's tokenizer; file is the data frame being preprocessed
EvaluatorTokenizer(tok, df) == tok

\* the tokenizer _preprocess_data transforms with: self.tokenizer as it is
PreprocessData_Tokenizer(tok, df) == tok

\* pad_sequences(..., maxlen=self.<field>_maxlen, padding='post') in _preprocess_data
PreprocessData_Pad(field, seqs) ==
    PadSequences(seqs, SystemMaxlen[field], "post", "pre")

\* the same call in ModelEvaluator.preprocess_test_data
PreprocessTestData_Pad(ev, field, seqs) ==
    PadSequences(seqs, EvaluatorMaxlen(ev)[field], "post", "pre")

\* pad_sequences(..., maxlen=...) with the padding argument left out
GenerateSubmission_Pad_Pre(ev, field, seqs) ==
    PadSequences(seqs, EvaluatorMaxlen(ev)[field], "pre", "pre")

\* the same call in ModelEvaluator.generate_submission
GenerateSubmission_Pad(ev, field, seqs) ==
    PadSequences(seqs, EvaluatorMaxlen(ev)[field], "post", "pre")

\* self.tokenizer.texts_to_sequences(...) for the three columns
TransformAt(tok, df) ==
    [c \in Columns |-> TextsToSequences(tok, Column(df, c))]

\* pad_sequences for the three columns, at one site
PadAt(site, ev, seqs) ==
    [c \in Columns |->
        CASE site = "_preprocess_data"     -> PreprocessData_Pad(c, seqs[c])
          [] site = "preprocess_test_data" -> PreprocessTestData_Pad(ev, c, seqs[c])
          [] site = "generate_submission"  -> GenerateSubmission_Pad(ev, c, seqs[c])]

PreprocessAt(site, tok, ev, df) == PadAt(site, ev, TransformAt(tok, df))

---------------------------------------------------------------------------
(* TextClassificationSystem *)

\* len(self.tokenizer.word_index)
VocabSize_NoPad(tok) == Cardinality(DOMAIN tok.word_index)

\* len(self.tokenizer.word_index) + 1
VocabSize(tok) == Cardinality(DOMAIN tok.word_index) + 1

\* texts + keywords + locations
AllTexts(df) == Column(df, "text") \o Column(df, "keyword") \o Column(df, "location")

\* int(0.3 * n).  0.3 is a double just below 3/10; for the n a file can have the
\* product rounds to 3n/10 when that is an integer and its floor is unchanged
\* otherwise, so the result is the integer quotient of 3n by 10
ValSize(n) == (3 * n) \div 10

TrainSize(n) == n - ValSize(n)

\* df.iloc[:val_size]
ValDataDf_Head(df) == SubSeq(df, 1, Len(df) - TrainSize(Len(df)))

\* df.iloc[train_size:]
ValDataDf(df) == SubSeq(df, TrainSize(Len(df)) + 1, Len(df))

\* _compute_vocab_size, called from __init__ on a new Tokenizer
ComputeVocabSize ==
    /\ pc = "compute_vocab"
    /\ LET df == FillNa(ReadCsv(train_csv.rows))
           tok == FitOnTexts(NewTokenizer, AllTexts(df))
       IN /\ tokenizer' = tok
          /\ vocab_size' = VocabSize(tok)
    /\ fit_calls' = fit_calls + 1
    /\ pc' = "build_model"
    /\ UNCHANGED <<train_csv, test_csv, validation_csv, output_csv, model_file,
                   params, train_dataset, evaluator, epochs, epoch, remaining,
                   taken, metrics, fed, predicted>>
    /\ UNCHANGED uvars

\* TextClassificationModel(...) and compile: the initializers draw the parameters
BuildModel ==
    /\ pc = "build_model"
    /\ params' \in ParamSpace
    /\ pc' = "preprocess"
    /\ UNCHANGED <<train_csv, test_csv, validation_csv, output_csv, model_file,
                   tokenizer, vocab_size, train_dataset, evaluator, epochs, epoch,
                   remaining, taken, metrics, fed, fit_calls, predicted>>
    /\ UNCHANGED uvars

\* _preprocess_data(train_file_path), then the ModelEvaluator is made.
\* The dataset holds every row of the file; shuffle and batch come before take,
\* so take(train_size) counts batches.
PreprocessData ==
    /\ pc = "preprocess"
    /\ LET df   == FillNa(ReadCsv(train_csv.rows))
           tok  == PreprocessData_Tokenizer(tokenizer, df)
           data == PreprocessAt("_preprocess_data", tok, NewEvaluator, df)
       IN /\ tokenizer' = tok
          /\ train_dataset' = [keyword  |-> data.keyword,
                               location |-> data.location,
                               text     |-> data.text,
                               targets  |-> Column(df, "target"),
                               take     |-> TrainSize(Len(df))]
          /\ validation_csv' = File(ToCsv(ValDataDf(df)))
    /\ evaluator' = NewEvaluator
    /\ pc' = "ready"
    /\ UNCHANGED <<train_csv, test_csv, output_csv, model_file, vocab_size, params,
                   epochs, epoch, remaining, taken, metrics, fed, fit_calls,
                   predicted>>
    /\ UNCHANGED uvars

\* train(epochs): model.fit starts its first epoch
Train ==
    /\ pc = "ready"
    /\ \E e \in 1..MaxEpochs : epochs' = e
    /\ epoch' = 1
    /\ remaining' = 1..Len(train_dataset.targets)
    /\ taken' = 0
    /\ pc' = "fit"
    /\ UNCHANGED <<train_csv, test_csv, validation_csv, output_csv, model_file,
                   tokenizer, vocab_size, params, train_dataset, evaluator,
                   metrics, fed, fit_calls, predicted>>
    /\ UNCHANGED uvars

RECURSIVE KSubsets(_, _)
\* the subsets of S with k elements
KSubsets(S, k) ==
    IF k = 0 THEN {{}}
    ELSE IF S = {} THEN {}
    ELSE LET x == CHOOSE y \in S : TRUE
         IN KSubsets(S \ {x}, k) \cup {T \cup {x} : T \in KSubsets(S \ {x}, k - 1)}

\* the batches the shuffled, batched iterator can produce next: the shuffle
\* buffer (10000) holds the whole file, so any BatchSize of the rows not yet
\* produced, or all of them when fewer are left
NextBatches(rest) ==
    IF Cardinality(rest) <= BatchSize THEN {rest}
    ELSE {rest \ out : out \in KSubsets(rest, Cardinality(rest) - BatchSize)}

\* one batch of train_dataset goes through train_step: forward pass, gradients,
\* optimizer.apply_gradients
TrainStep ==
    /\ pc = "fit"
    /\ remaining # {}
    /\ taken < train_dataset.take
    /\ \E batch \in NextBatches(remaining) :
          /\ remaining' = remaining \ batch
          /\ fed' = fed \cup batch
    /\ params' \in ParamSpace
    /\ taken' = taken + 1
    /\ UNCHANGED <<train_csv, test_csv, validation_csv, output_csv, model_file,
                   tokenizer, vocab_size, train_dataset, evaluator, pc, epochs,
                   epoch, metrics, fit_calls, predicted>>
    /\ UNCHANGED uvars

\* fit that stops after its first epoch
EpochEnd_SaveEarly ==
    /\ pc = "fit"
    /\ (remaining = {} \/ taken = train_dataset.take)
    /\ pc' = "save"
    /\ UNCHANGED <<epoch, remaining, taken>>
    /\ UNCHANGED <<train_csv, test_csv, validation_csv, output_csv, model_file,
                   tokenizer, vocab_size, params, train_dataset, evaluator, epochs,
                   metrics, fed, fit_calls, predicted>>
    /\ UNCHANGED uvars

\* the iterator is exhausted (or take's count is reached): the next epoch
\* reshuffles, the last one ends fit
EpochEnd ==
    /\ pc = "fit"
    /\ (remaining = {} \/ taken = train_dataset.take)
    /\ IF epoch < epochs
       THEN /\ epoch' = epoch + 1
            /\ remaining' = 1..Len(train_dataset.targets)
            /\ taken' = 0
            /\ pc' = "fit"
       ELSE /\ pc' = "save"
            /\ UNCHANGED <<epoch, remaining, taken>>
    /\ UNCHANGED <<train_csv, test_csv, validation_csv, output_csv, model_file,
                   tokenizer, vocab_size, params, train_dataset, evaluator, epochs,
                   metrics, fed, fit_calls, predicted>>
    /\ UNCHANGED uvars

\* model.summary(); model.save(...h5); train returns and fit's iteration state
\* is gone
Save ==
    /\ pc = "save"
    /\ model_file' = [exists |-> TRUE, params |-> params]
    /\ pc' = "ready"
    /\ epochs' = 0
    /\ epoch' = 0
    /\ remaining' = {}
    /\ taken' = 0
    /\ UNCHANGED <<train_csv, test_csv, validation_csv, output_csv, tokenizer,
                   vocab_size, params, train_dataset, evaluator, metrics, fed,
                   fit_calls, predicted>>
    /\ UNCHANGED uvars

\* model.save of a subclassed model to HDF5 is refused by framework versions
\* that serialize only functional and sequential models: the call raises
SaveRaises ==
    /\ pc = "save"
    /\ pc' = "error"
    /\ UNCHANGED <<train_csv, test_csv, validation_csv, output_csv, model_file,
                   tokenizer, vocab_size, params, train_dataset, evaluator, epochs,
                   epoch, remaining, taken, metrics, fed, fit_calls, predicted>>
    /\ UNCHANGED uvars

\* precision_score, recall_score, f1_score as <<numerator, denominator>>
Scores(true_labels, predicted_labels) ==
    LET I  == 1..Len(true_labels)
        tp == Cardinality({i \in I : true_labels[i] = 1 /\ predicted_labels[i] = 1})
        fp == Cardinality({i \in I : true_labels[i] = 0 /\ predicted_labels[i] = 1})
        fn == Cardinality({i \in I : true_labels[i] = 1 /\ predicted_labels[i] = 0})
    IN [precision |-> <<tp, tp + fp>>, recall |-> <<tp, tp + fn>>,
        f1_score |-> <<2 * tp, 2 * tp + fp + fn>>]

\* evaluate(): ModelEvaluator.evaluate(validation_file_path)
Evaluate ==
    /\ pc = "ready"
    /\ LET df   == FillNa(ReadCsv(validation_csv.rows))
           tok  == EvaluatorTokenizer(tokenizer, df)
           data == PreprocessAt("preprocess_test_data", tok, evaluator, df)
           predictions == Predict(params, data)
           predicted_labels == Evaluate_Labels(predictions)
       IN /\ Len(df) > 0
          /\ metrics' = Scores(Column(df, "target"), predicted_labels)
          /\ predicted' = [predicted EXCEPT !.evaluate =
                              [done |-> TRUE, params |-> params,
                               word_index |-> tok.word_index,
                               predictions |-> predictions,
                               labels |-> predicted_labels]]
    /\ UNCHANGED <<train_csv, test_csv, validation_csv, output_csv, model_file,
                   tokenizer, vocab_size, params, train_dataset, evaluator, pc,
                   epochs, epoch, remaining, taken, fed, fit_calls>>
    /\ UNCHANGED uvars

\* model.predict raises on an input with no rows
EvaluateRaises ==
    /\ pc = "ready"
    /\ Len(validation_csv.rows) = 0
    /\ pc' = "error"
    /\ UNCHANGED <<train_csv, test_csv, validation_csv, output_csv, model_file,
                   tokenizer, vocab_size, params, train_dataset, evaluator, epochs,
                   epoch, remaining, taken, metrics, fed, fit_calls, predicted>>
    /\ UNCHANGED uvars

\* pd.DataFrame({'id': sorted(ids), 'target': predicted_labels})
SubmissionDf_SortedIds(ids, predicted_labels) ==
    [i \in 1..Len(ids) |-> [id |-> Sorted(Range(ids))[i], target |-> predicted_labels[i]]]

\* pd.DataFrame({'id': ids, 'target': predicted_labels})
SubmissionDf(ids, predicted_labels) ==
    [i \in 1..Len(ids) |-> [id |-> ids[i], target |-> predicted_labels[i]]]

\* generate_submission(): ModelEvaluator.generate_submission(test, output)
GenerateSubmission ==
    /\ pc = "ready"
    /\ LET df_test == FillNa(ReadCsv(test_csv.rows))
           tok  == EvaluatorTokenizer(tokenizer, df_test)
           data == PreprocessAt("generate_submission", tok, evaluator, df_test)
           predictions == Predict(params, data)
           predicted_labels == Submission_Labels(predictions)
       IN /\ Len(df_test) > 0
          /\ output_csv' = File(ToCsv(SubmissionDf(Column(df_test, "id"),
                                                   predicted_labels)))
          /\ predicted' = [predicted EXCEPT !.generate_submission =
                              [done |-> TRUE, params |-> params,
                               word_index |-> tok.word_index,
                               predictions |-> predictions,
                               labels |-> predicted_labels]]
    /\ UNCHANGED <<train_csv, test_csv, validation_csv, model_file, tokenizer,
                   vocab_size, params, train_dataset, evaluator, pc, epochs, epoch,
                   remaining, taken, metrics, fed, fit_calls>>
    /\ UNCHANGED uvars

\* model.predict raises on an input with no rows
GenerateSubmissionRaises ==
    /\ pc = "ready"
    /\ Len(test_csv.rows) = 0
    /\ pc' = "error"
    /\ UNCHANGED <<train_csv, test_csv, validation_csv, output_csv, model_file,
                   tokenizer, vocab_size, params, train_dataset, evaluator, epochs,
                   epoch, remaining, taken, metrics, fed, fit_calls, predicted>>
    /\ UNCHANGED uvars

---------------------------------------------------------------------------
(* Input files *)

\* rows the training files are made of: upper case, punctuation, missing cells,
\* repeated words, a keyword longer than keyword_maxlen
TrainPool ==
    << [keyword |-> <<"a">>, location |-> <<>>,
        text |-> <<"A", " ", "b", "!">>, target |-> 1],
       [keyword |-> <<"b", " ", "a">>, location |-> <<"c">>,
        text |-> <<"b", " ", "b", " ", "a">>, target |-> 0],
       [keyword |-> <<>>, location |-> <<"A", "b">>,
        text |-> <<"c", "!", "a">>, target |-> 1],
       [keyword |-> <<"a", " ", "b", " ", "c", " ", "a">>, location |-> <<"b">>,
        text |-> <<"a", "b", " ", "c">>, target |-> 0] >>

\* rows the test files are made of: words no training file has, missing cells
TestPool ==
    << [keyword |-> <<"c", "c">>, location |-> <<"a">>,
        text |-> <<"b", " ", "c", "c", "!", " ", "A">>],
       [keyword |-> <<>>, location |-> <<"b", "a">>,
        text |-> <<"a", " ", "a", " ", "b", "a">>],
       [keyword |-> <<"b">>, location |-> <<>>,
        text |-> <<"c", " ", "a", "b", " ", "c", " ", "c", " ", "b">>] >>

\* n rows of the pool in its order from row start on, with distinct ids
TrainFile(n, start) ==
    [i \in 1..n |->
        LET r == TrainPool[((start + i - 2) % Len(TrainPool)) + 1]
        IN [id |-> 3 * i + start, keyword |-> r.keyword, location |-> r.location,
            text |-> r.text, target |-> r.target]]

TestFile(m, start) ==
    [i \in 1..m |->
        LET r == TestPool[((start + i - 2) % Len(TestPool)) + 1]
        IN [id |-> 100 - 7 * i + start, keyword |-> r.keyword,
            location |-> r.location, text |-> r.text]]

\* the training file of n rows: files of different sizes start at different
\* rows of the pool
TrainFileOfSize(n) == TrainFile(n, ((n - 1) % Len(TrainPool)) + 1)

\* the training files: one of every size up to MaxRows, and the smallest file
\* that needs a second batch
TrainFiles ==
    {TrainFileOfSize(n) : n \in 1..MaxRows} \cup {TrainFileOfSize(BatchSize + 1)}

\* the test files: none to MaxTestRows rows
TestFiles ==
    {TestFile(m, start) : m \in 0..MaxTestRows, start \in 1..Len(TestPool)}

NoPrediction == [done |-> FALSE, params |-> 0, word_index |-> <<>>,
                 predictions |-> <<>>, labels |-> <<>>]

NoMetrics == [precision |-> <<0, 0>>, recall |-> <<0, 0>>, f1_score |-> <<0, 0>>]

\* before TextClassificationSystem(...) runs
Unconstructed ==
    /\ validation_csv = NoFile
    /\ output_csv = NoFile
    /\ model_file = [exists |-> FALSE, params |-> 0]
    /\ tokenizer = NewTokenizer
    /\ vocab_size = 0
    /\ params = 0
    /\ train_dataset = [keyword |-> <<>>, location |-> <<>>, text |-> <<>>,
                        targets |-> <<>>, take |-> 0]
    /\ evaluator = NewEvaluator
    /\ pc = "compute_vocab"
    /\ epochs = 0
    /\ epoch = 0
    /\ remaining = {}
    /\ taken = 0
    /\ metrics = NoMetrics
    /\ fed = {}
    /\ fit_calls = 0
    /\ predicted = [evaluate |-> NoPrediction, generate_submission |-> NoPrediction]

HarnessOff ==
    /\ u_pc = "off"
    /\ u_site = "_preprocess_data"
    /\ u_field = "text"
    /\ u_text = <<>>
    /\ u_seq = <<>>
    /\ u_padded = <<>>

Init ==
    /\ \E train \in TrainFiles, test \in TestFiles :
          /\ train = TrainFileOfSize(MaxRows) \/ test = TestFile(MaxTestRows, 1)
          /\ train_csv = File(train)
          /\ test_csv = File(test)
    /\ Unconstructed
    /\ HarnessOff

Next ==
    \/ ComputeVocabSize
    \/ BuildModel
    \/ PreprocessData
    \/ Train
    \/ TrainStep
    \/ EpochEnd
    \/ Save
    \/ SaveRaises
    \/ Evaluate
    \/ EvaluateRaises
    \/ GenerateSubmission
    \/ GenerateSubmissionRaises

Spec == Init /\ [][Next]_vars

---------------------------------------------------------------------------
(* The preprocessing functions on arbitrary strings: after construction, one
   string is transformed and padded as one of the three sites does it. *)

Alphabet == {"a", "b", "c", "A", " ", "!"}

Fields == {"text", "keyword", "location"}

Strings == UNION {[1..k -> Alphabet] : k \in 0..MaxChars}

\* k words a b c a b c ..., separated by blanks
LongText(k) ==
    [i \in 1..(2 * k - 1) |->
        IF i % 2 = 0 THEN " " ELSE <<"a", "b", "c">>[((((i + 1) \div 2) - 1) % 3) + 1]]

\* texts with exactly, and with one more than, each field's maximum of words
LongTexts == {LongText(SystemMaxlen[f] + d) : f \in Fields, d \in {0, 1}}

Inputs == Strings \cup LongTexts

\* a data frame of one row whose column field holds text
OneRow(field, text) == <<[c \in Columns |-> IF c = field THEN text ELSE <<>>]>>

\* the tokenizer a site transforms with
SiteTokenizer(site, tok, df) ==
    IF site = "_preprocess_data" THEN PreprocessData_Tokenizer(tok, df)
    ELSE EvaluatorTokenizer(tok, df)

InitPre ==
    /\ \E n \in 1..MaxVocabRows : train_csv = File(TrainFileOfSize(n))
    /\ test_csv = File(TestFile(1, 1))
    /\ Unconstructed
    /\ u_pc = "idle"
    /\ u_site = "_preprocess_data"
    /\ u_field = "text"
    /\ u_text = <<>>
    /\ u_seq = <<>>
    /\ u_padded = <<>>

\* one string goes through texts_to_sequences and pad_sequences at one site
UApply ==
    /\ pc = "ready"
    /\ u_pc = "idle"
    /\ \E site \in Sites, field \in Fields, text \in Inputs :
          LET df   == OneRow(field, text)
              seqs == TransformAt(SiteTokenizer(site, tokenizer, df), df)
          IN /\ u_site' = site
             /\ u_field' = field
             /\ u_text' = text
             /\ u_seq' = seqs[field][1]
             /\ u_padded' = PadAt(site, evaluator, seqs)[field][1]
    /\ u_pc' = "padded"
    /\ UNCHANGED <<train_csv, test_csv>>
    /\ UNCHANGED sysvars

NextPre ==
    \/ ComputeVocabSize
    \/ BuildModel
    \/ PreprocessData
    \/ UApply

SpecPre == InitPre /\ [][NextPre]_vars

---------------------------------------------------------------------------
(* Properties *)

\* the maximum lengths the claims name
ClaimMaxlen == [text |-> 100, keyword |-> 3, location |-> 20]

\* C1: at every preprocessing site and for every field, the padded sequence has
\* exactly the field's maximum length, and a sequence that is not longer keeps
\* its tokens in order at the front, followed by zeros only.
C1_PaddedLength ==
    u_pc = "padded" =>
        LET L == ClaimMaxlen[u_field]
            n == Len(u_seq)
        IN /\ Len(u_padded) = L
           /\ n <= L => /\ \A k \in 1..n : u_padded[k] = u_seq[k]
                        /\ \A k \in (n + 1)..L : u_padded[k] = 0

\* a keyword of two different tokens [x, y] was padded to [x, y, 0] by
\* generate_submission
C1_Witness ==
    /\ u_pc = "padded"
    /\ u_site = "generate_submission"
    /\ u_field = "keyword"
    /\ Len(u_seq) = 2
    /\ u_seq[1] # u_seq[2]
    /\ u_padded = <<u_seq[1], u_seq[2], 0>>

\* C2: a sequence longer than its field's maximum length L is padded to exactly
\* its first L tokens, in order.
C2_TruncatesFromEnd ==
    (u_pc = "padded" /\ Len(u_seq) > ClaimMaxlen[u_field]) =>
        u_padded = SubSeq(u_seq, 1, ClaimMaxlen[u_field])

\* the rows of the training file that form the validation partition: the last
\* floor(0.3 n)
ValidationRows ==
    LET n == Len(train_csv.rows)
    IN (n - ((3 * n) \div 10) + 1)..n

\* C3: no row of the validation partition is ever in a batch given to the
\* training step.
C3_ValidationHeldOut == fed \cap ValidationRows = {}

\* C4: the validation file holds floor(0.3 n) rows, train_size is n minus that,
\* and the validation rows are the last rows of the training file in order.
C4_SplitSizesAndOrder ==
    validation_csv.exists =>
        LET n == Len(train_csv.rows)
            v == Len(validation_csv.rows)
        IN /\ 10 * v <= 3 * n
           /\ 3 * n < 10 * (v + 1)
           /\ train_dataset.take = n - v
           /\ \A k \in 1..v : validation_csv.rows[k] = train_csv.rows[n - v + k]

\* ten rows were split into seven and the last three
C4_Witness ==
    /\ validation_csv.exists
    /\ Len(train_csv.rows) = 10
    /\ Len(validation_csv.rows) = 3
    /\ train_dataset.take = 7
    /\ validation_csv.rows[1] = train_csv.rows[8]
    /\ validation_csv.rows[1] # train_csv.rows[1]

\* C5: in evaluate and in generate_submission the predicted label is 1 exactly
\* when the probability is above 0.5 (5 tenths), else 0, and the submission
\* carries those labels.
C5_ThresholdRule ==
    /\ \A who \in {"evaluate", "generate_submission"} :
          predicted[who].done =>
              /\ Len(predicted[who].labels) = Len(predicted[who].predictions)
              /\ \A i \in 1..Len(predicted[who].predictions) :
                    /\ predicted[who].labels[i] \in {0, 1}
                    /\ predicted[who].labels[i] = 1 <=> predicted[who].predictions[i] > 5
    /\ predicted.generate_submission.done =>
          \A i \in 1..Len(output_csv.rows) :
              output_csv.rows[i].target = predicted.generate_submission.labels[i]

\* generate_submission met a probability of exactly 0.5 and one above it, and
\* evaluate one above 0.5 and one not above it
C5_Witness ==
    /\ predicted.evaluate.done
    /\ predicted.generate_submission.done
    /\ \E i, j \in 1..Len(predicted.generate_submission.predictions) :
          /\ predicted.generate_submission.predictions[i] = 5
          /\ predicted.generate_submission.labels[i] = 0
          /\ predicted.generate_submission.predictions[j] > 5
          /\ predicted.generate_submission.labels[j] = 1
    /\ \E i, j \in 1..Len(predicted.evaluate.predictions) :
          /\ predicted.evaluate.labels[i] = 0
          /\ predicted.evaluate.labels[j] = 1

\* C6: the tokenizer is fitted once, during construction; no later step changes
\* it, and every evaluator preprocessing uses the system's word index.
C6_VocabularyFittedOnce ==
    [][/\ pc = "compute_vocab" => fit_calls' = 1
       /\ pc # "compute_vocab" => /\ tokenizer' = tokenizer
                                  /\ fit_calls = 1
                                  /\ fit_calls' = 1
       /\ \A who \in {"evaluate", "generate_submission"} :
             predicted'[who].done => predicted'[who].word_index = tokenizer'.word_index
      ]_vars

\* the words of the test file
TestWords ==
    UNION {Range(TextToWordSequence(test_csv.rows[i][c])) :
              i \in 1..Len(test_csv.rows), c \in Columns}

\* after training, evaluation and a submission over a test file that has a
\* word the vocabulary lacks
C6_Witness ==
    /\ pc = "ready"
    /\ fit_calls = 1
    /\ model_file.exists
    /\ predicted.evaluate.done
    /\ predicted.generate_submission.done
    /\ \E w \in TestWords : w \notin DOMAIN tokenizer.word_index

\* the words of the training file's text, keyword and location cells
TrainWords ==
    UNION {Range(TextToWordSequence(train_csv.rows[i][c])) :
              i \in 1..Len(train_csv.rows), c \in Columns}

\* C7: at every site each word of the string has one index in the sequence, and
\* a word the training file lacks has the oov index, which no word of the
\* training file has.
C7_UnseenToOov ==
    u_pc = "padded" =>
        LET ws == TextToWordSequence(u_text)
            wi == tokenizer.word_index
        IN /\ Len(u_seq) = Len(ws)
           /\ \A k \in 1..Len(ws) :
                 ws[k] \notin TrainWords =>
                     /\ OovToken \in DOMAIN wi
                     /\ u_seq[k] = wi[OovToken]
                     /\ \A w \in TrainWords : w \in DOMAIN wi /\ wi[w] # u_seq[k]

\* the evaluator's validation preprocessing transformed a string with a word
\* of the training file and a word that is not
C7_Witness ==
    /\ u_pc = "padded"
    /\ u_site = "preprocess_test_data"
    /\ Len(u_seq) = 2
    /\ LET ws == TextToWordSequence(u_text)
       IN \E j, k \in 1..2 :
             /\ ws[j] \in TrainWords
             /\ ws[k] \notin TrainWords
             /\ u_seq[k] = 1
             /\ u_seq[j] > 1

\* C8: once built, the parameters change only in a training step, which uses up
\* one batch; epochs follow one another, each after the iterator of the one
\* before is used up; the model file is written only after the last epoch's
\* last step, and holds the parameters of that moment.
C8_ParametersOnlyByTrainStep ==
    [][/\ (pc # "build_model" /\ params' # params) =>
             /\ pc = "fit"
             /\ pc' = "fit"
             /\ taken' = taken + 1
             /\ remaining' # remaining
             /\ remaining' \subseteq remaining
             /\ epoch' = epoch
       /\ (pc = "fit" /\ epoch' # epoch) =>
             /\ epoch' = epoch + 1
             /\ epoch' <= epochs
             /\ (remaining = {} \/ taken = train_dataset.take)
             /\ params' = params
       /\ model_file' # model_file =>
             /\ pc = "save"
             /\ epoch = epochs
             /\ (remaining = {} \/ taken = train_dataset.take)
             /\ params' = params
             /\ model_file' = [exists |-> TRUE, params |-> params]
      ]_vars

\* a training run of two batches an epoch has saved the model, and evaluate and
\* generate_submission have run
C8_Witness ==
    /\ pc = "ready"
    /\ model_file.exists
    /\ Len(train_dataset.targets) > BatchSize
    /\ predicted.evaluate.done
    /\ predicted.generate_submission.done

\* the probability the model with parameters p gives to one row of the test file
RowProbability(p, row) ==
    LET df   == FillNa(ReadCsv(<<row>>))
        data == PreprocessAt("generate_submission", tokenizer, evaluator, df)
    IN Forward(p, data.keyword[1], data.location[1], data.text[1])

C10_IndicesWithinVocabulary ==
    /\ u_pc = "padded" => \A k \in 1..Len(u_padded) :
                              0 <= u_padded[k] /\ u_padded[k] < vocab_size
    /\ \A c \in Columns : \A i \in 1..Len(train_dataset[c]) :
          \A k \in 1..Len(train_dataset[c][i]) :
              0 <= train_dataset[c][i][k] /\ train_dataset[c][i][k] < vocab_size

\* a padded sequence with padding, the oov index and the largest index there is
C10_Witness ==
    /\ u_pc = "padded"
    /\ u_field = "keyword"
    /\ \E i, j, k \in 1..Len(u_padded) :
          /\ u_padded[i] = 0
          /\ u_padded[j] = 1
          /\ u_padded[k] = vocab_size - 1
          /\ u_padded[k] = Cardinality(DOMAIN tokenizer.word_index)
          /\ k # j

====
